---- MODULE Spec2Model ----
(***************************************************************************)
(* Verification model of the annotation Highlighter component             *)
(* (src/unnamed/part_004, second file of the part: lines 186-599) and of   *)
(* the tag grouping of src/utils/tag-grouping.ts, and of the session       *)
(* tracking of the paper page (src/app/paper/[id]/page.tsx).               *)
(*                                                                         *)
(* Texts are sequences of one-character strings.  Offsets are 0-based as   *)
(* in the source; SubSeq is 1-based, the conversion is made in slice.      *)
(***************************************************************************)
EXTENDS Integers, Sequences, FiniteSets, TLC

\* ------------------------------------------------------------------ bounds
MaxRenderLen == 4      \* longest text given to the segment builder
MaxSpans == 2          \* most live spans given to the segment builder
MaxRenders == 2        \* builds from one (text, annotations) snapshot
MaxTextLen == 2        \* longest canonical text of the annotated paper
MaxAnns == 2           \* most annotation documents ever created
MaxWrites == 3         \* most writes to the annotations collection
MaxLabels == 3         \* most labels in the array given to groupTags
MaxThreshold == 1      \* largest threshold given to groupTags
MaxLabelLen == 2       \* longest string given to the string metric
MaxTabs == 2           \* paper pages of one user opened on one paper
MaxTicks == 4          \* steps of the clock
TicksPerBeat == 2      \* steps of the clock in one heartbeat interval
MaxPending == 2        \* requests of one page awaiting the store

\* ------------------------------------------------------------- value sets
\* Texts are taken from an alphabet of pairwise different characters, so
\* that a character lost, repeated or moved always changes the text.
Alphabet == <<"a", "b", "c", "d", "e", "f", "g", "h">>
Prefix(n) == SubSeq(Alphabet, 1, n)
TagIds == {"t1", "t2"}
NoTag == "undefined"
NULL == [null |-> TRUE]
NoTime == 0            \* a timestamp field that is not set
DocIds == 1..MaxAnns   \* the auto-generated document ids, in the store's order

\* The canonical texts of the paper: the substrings of the longest one.
Texts == {<<>>} \cup {SubSeq(Alphabet, i, j) : i \in 1..MaxTextLen, j \in 1..MaxTextLen}

VARIABLES
    text,               \* prop text: the canonical text the component renders
    annotations,        \* useState annotations: live records of the last snapshot
    segments,           \* the segment sequence of the last renderText run
    renders,            \* number of renderText runs on the current snapshot
    docs,               \* the documents of the "annotations" collection
    now,                \* the clock read by new Date()
    selection,          \* useState selection: NULL or [start, end, text]
    popoverOpen,        \* useState popoverOpen
    editMenuOpen,       \* useState editMenuOpen
    selectedAnnotation, \* useState selectedAnnotation: NULL or an annotation
    isEditing,          \* useState isEditing
    editText,           \* useState editText
    readOnly,           \* prop readOnly
    labels,             \* the array of tag labels given to the tag grouping
    threshold,          \* the threshold given to the tag grouping
    groups,             \* the TagGroup[] returned by the last groupTags call
    grouped,            \* whether groupTags has returned
    distance,           \* NULL or [value: the result of levenshteinDistance]
    similar,            \* NULL or [value: the result of areTagsSimilar]
    tagsMap,            \* useState tags: the ids of the "tags" documents
    position,           \* <<node, offset>> given to getAbsoluteOffset
    resolved,           \* NULL or [value: the result of getAbsoluteOffset]
    sessions,           \* "paper_sessions": document id -> duration_seconds
    tabs,               \* the mounted paper pages: refs and pending requests
    clock               \* Date.now(), in milliseconds

storeVars == <<docs, now>>
uiVars == <<selection, popoverOpen, editMenuOpen, selectedAnnotation,
            isEditing, editText, readOnly>>
highlighterVars == <<text, annotations, segments, renders, storeVars, uiVars,
                     tagsMap>>
groupVars == <<labels, threshold, groups, grouped, distance, similar>>
offsetVars == <<position, resolved>>
sessionVars == <<sessions, tabs, clock>>
pageVars == <<offsetVars, sessionVars>>
vars == <<highlighterVars, groupVars, pageVars>>

\* No tag grouping has been asked for.
GroupIdle ==
    /\ labels = <<>>
    /\ threshold = 0
    /\ groups = <<>>
    /\ grouped = FALSE
    /\ distance = NULL
    /\ similar = NULL

\* No boundary point has been given to getAbsoluteOffset.
OffsetIdle ==
    /\ position = <<0, 0>>
    /\ resolved = NULL

\* No paper page is open and no session is stored.
SessionIdle ==
    /\ sessions = <<>>
    /\ tabs = <<>>
    /\ clock = 0

PageIdle == OffsetIdle /\ SessionIdle

\* ---------------------------------------------------------------- helpers
Min(a, b) == IF a < b THEN a ELSE b
Max(a, b) == IF a > b THEN a ELSE b

\* String.prototype.slice(s, e) for s, e >= 0: both ends are clamped to the
\* length, and an empty string results when the clamped start is not below
\* the clamped end.
slice(t, s, e) ==
    LET cs == Min(s, Len(t))
        ce == Min(e, Len(t))
    IN  IF cs < ce THEN SubSeq(t, cs + 1, ce) ELSE <<>>

\* ------------------------------------------------------------ renderText
\* An insertion that puts x in front of the elements with an equal start.
RECURSIVE InsertUnstable(_, _)
InsertUnstable(sorted, x) ==
    IF sorted = <<>> THEN <<x>>
    ELSE IF Head(sorted).start_index < x.start_index
         THEN <<Head(sorted)>> \o InsertUnstable(Tail(sorted), x)
         ELSE <<x>> \o sorted

\* Array.prototype.sort with (a, b) => a.start_index - b.start_index is a
\* stable sort: the element x goes behind every element whose start_index
\* is less than or equal to its own.
RECURSIVE Insert(_, _)
Insert(sorted, x) ==
    IF sorted = <<>> THEN <<x>>
    ELSE IF Head(sorted).start_index <= x.start_index
         THEN <<Head(sorted)>> \o Insert(Tail(sorted), x)
         ELSE <<x>> \o sorted

RECURSIVE SortFrom(_, _)
SortFrom(anns, acc) ==
    IF anns = <<>> THEN acc
    ELSE SortFrom(Tail(anns), Insert(acc, Head(anns)))

\* The sweep run on the array as delivered, without the sort.
sortedAnnsUnsorted(anns) == anns

sortedAnns(anns) == SortFrom(anns, <<>>)

\* annotations.sort(...) without the copy sorts the state array itself.
AnnotationsSortedInPlace(anns) == sortedAnns(anns)

\* The state array after renderText: the sort works on the copy
\* [...annotations], so the array itself is left as it was.
AnnotationsAfterRender(anns) == anns

PlainSegment(t, from, to) ==
    [text |-> slice(t, from, to), type |-> "text",
     id |-> <<"text", from>>, tagId |-> NoTag]

\* A Highlighted segment keyed by the span's start offset, as the Plain
\* segments are keyed by theirs, instead of by the span's id.
HighlightSegmentStartAsId(t, from, to, ann) ==
    [text |-> slice(t, from, to), type |-> "highlight",
     id |-> <<"doc", ann.start_index>>, tagId |-> ann.tag_id]

HighlightSegment(t, from, to, ann) ==
    [text |-> slice(t, from, to), type |-> "highlight",
     id |-> <<"doc", ann.id>>, tagId |-> ann.tag_id]

\* Variants of the forEach iteration below, each differing from it in one
\* place: the highlight starts at the span's own start; the gap is pushed
\* after the highlight; the overlap test is dropped; the gap test is >=.
SweepStepNoCursor(t, st, ann) ==
    LET gap == IF ann.start_index > st.lastIndex
               THEN <<PlainSegment(t, st.lastIndex, ann.start_index)>>
               ELSE <<>>
    IN  IF ann.end_index > st.lastIndex
        THEN [segments  |-> st.segments \o gap
                            \o <<HighlightSegment(t, ann.start_index,
                                                  ann.end_index, ann)>>,
              lastIndex |-> ann.end_index]
        ELSE [segments |-> st.segments \o gap, lastIndex |-> st.lastIndex]

SweepStepGapAfter(t, st, ann) ==
    LET gap == IF ann.start_index > st.lastIndex
               THEN <<PlainSegment(t, st.lastIndex, ann.start_index)>>
               ELSE <<>>
    IN  IF ann.end_index > st.lastIndex
        THEN [segments  |-> st.segments
                            \o <<HighlightSegment(t,
                                    Max(ann.start_index, st.lastIndex),
                                    ann.end_index, ann)>> \o gap,
              lastIndex |-> ann.end_index]
        ELSE [segments |-> st.segments \o gap, lastIndex |-> st.lastIndex]

SweepStepAlwaysHighlight(t, st, ann) ==
    LET gap == IF ann.start_index > st.lastIndex
               THEN <<PlainSegment(t, st.lastIndex, ann.start_index)>>
               ELSE <<>>
    IN  [segments  |-> st.segments \o gap
                        \o <<HighlightSegment(t,
                                Max(ann.start_index, st.lastIndex),
                                ann.end_index, ann)>>,
         lastIndex |-> Max(ann.end_index, st.lastIndex)]

SweepStepGapGeq(t, st, ann) ==
    LET gap == IF ann.start_index >= st.lastIndex
               THEN <<PlainSegment(t, st.lastIndex, ann.start_index)>>
               ELSE <<>>
    IN  IF ann.end_index > st.lastIndex
        THEN [segments  |-> st.segments \o gap
                            \o <<HighlightSegment(t,
                                    Max(ann.start_index, st.lastIndex),
                                    ann.end_index, ann)>>,
              lastIndex |-> ann.end_index]
        ELSE [segments |-> st.segments \o gap, lastIndex |-> st.lastIndex]

\* One iteration of sortedAnns.forEach on the sweep state
\* [segments, lastIndex].
SweepStep(t, st, ann) ==
    LET gap == IF ann.start_index > st.lastIndex
               THEN <<PlainSegment(t, st.lastIndex, ann.start_index)>>
               ELSE <<>>
    IN  IF ann.end_index > st.lastIndex
        THEN [segments  |-> st.segments \o gap
                            \o <<HighlightSegment(t,
                                    Max(ann.start_index, st.lastIndex),
                                    ann.end_index, ann)>>,
              lastIndex |-> ann.end_index]
        ELSE [segments |-> st.segments \o gap, lastIndex |-> st.lastIndex]

RECURSIVE Sweep(_, _, _)
Sweep(t, sorted, st) ==
    IF sorted = <<>> THEN st
    ELSE Sweep(t, Tail(sorted), SweepStep(t, st, Head(sorted)))

\* The "Remaining text" step after the loop.
Remainder(t, st) ==
    IF st.lastIndex < Len(t)
    THEN st.segments \o <<PlainSegment(t, st.lastIndex, Len(t))>>
    ELSE st.segments

renderText(t, anns) ==
    Remainder(t, Sweep(t, sortedAnns(anns),
                       [segments |-> <<>>, lastIndex |-> 0]))

\* ---------------------------------------------- segment builder inputs
\* The valid ranges of a text: 0 <= start < end <= len(text).
Ranges(t) == {r \in (0..Len(t)) \X (0..Len(t)) : r[1] < r[2]}

Annotation(i, t, r, tag) ==
    [id |-> i, start_index |-> r[1], end_index |-> r[2], tag_id |-> tag,
     text_content |-> slice(t, r[1], r[2])]

\* A sequence of n live spans valid for t, in any order of their starts,
\* given by f: position -> (range, tag); ids are unique (the position in
\* the snapshot).
RenderInput(t, n, f) == [i \in 1..n |-> Annotation(i, t, f[i][1], f[i][2])]

RenderTexts == {Prefix(n) : n \in 0..MaxRenderLen}

InitRender ==
    /\ text \in RenderTexts
    /\ \E n \in 0..MaxSpans :
          \E f \in [1..n -> Ranges(text) \X TagIds] :
              annotations = RenderInput(text, n, f)
    /\ segments = <<>>
    /\ renders = 0
    /\ docs = {}
    /\ now = 1
    /\ selection = NULL
    /\ popoverOpen = FALSE
    /\ editMenuOpen = FALSE
    /\ selectedAnnotation = NULL
    /\ isEditing = FALSE
    /\ editText = text
    /\ readOnly = FALSE
    /\ tagsMap = TagIds
    /\ GroupIdle
    /\ PageIdle

\* One run of renderText on the current (text, annotations).
RenderText ==
    /\ renders < MaxRenders
    /\ segments' = renderText(text, annotations)
    /\ annotations' = AnnotationsAfterRender(annotations)
    /\ renders' = renders + 1
    /\ UNCHANGED <<text, storeVars, uiVars, groupVars, tagsMap, pageVars>>

NextRender == RenderText

SpecRender == InitRender /\ [][NextRender]_vars

\* =====================================================================
\* The Highlighter component and the annotations collection
\* =====================================================================
RECURSIVE Concat(_)
Concat(segs) ==
    IF segs = <<>> THEN <<>> ELSE Head(segs).text \o Concat(Tail(segs))

\* The text nodes under the container, in document order: one per rendered
\* segment <span>{seg.text}</span>; an empty string renders no text node.
RECURSIVE TextNodes(_)
TextNodes(segs) ==
    IF segs = <<>> THEN <<>>
    ELSE IF Head(segs).text = <<>> THEN TextNodes(Tail(segs))
         ELSE <<Head(segs).text>> \o TextNodes(Tail(segs))

\* A tree walk that never advances currentOffset.
RECURSIVE WalkNoAdvance(_, _, _, _, _)
WalkNoAdvance(nodes, k, node, offset, currentOffset) ==
    IF k > Len(nodes) THEN -1
    ELSE IF k = node THEN currentOffset + offset
         ELSE WalkNoAdvance(nodes, k + 1, node, offset, currentOffset)

\* The tree walk of getAbsoluteOffset from text node k on.
RECURSIVE Walk(_, _, _, _, _)
Walk(nodes, k, node, offset, currentOffset) ==
    IF k > Len(nodes) THEN -1
    ELSE IF k = node THEN currentOffset + offset
         ELSE Walk(nodes, k + 1, node, offset, currentOffset + Len(nodes[k]))

\* A resolution that refuses an offset beyond the end of its node.
getAbsoluteOffsetChecked(nodes, node, offset) ==
    IF node \in 1..Len(nodes) /\ offset > Len(nodes[node]) THEN -1
    ELSE Walk(nodes, 1, node, offset, 0)

\* node is the index of a text node of the container, or 0 for a node the
\* walker does not visit (an element node).
getAbsoluteOffset(nodes, node, offset) == Walk(nodes, 1, node, offset, 0)

\* The boundary points a Range over the container can have: an offset into
\* a text node, 0 <= offset <= length, or a point on an element node.
DomPoints(nodes) ==
    {<<0, 0>>} \cup {p \in (1..Len(nodes)) \X (0..MaxTextLen) :
                        p[2] <= Len(nodes[p[1]])}

\* A Range's start is not behind its end in document order.
DomOrder(s, e) ==
    \/ s[1] = 0
    \/ e[1] = 0
    \/ s[1] < e[1]
    \/ s[1] = e[1] /\ s[2] <= e[2]

\* The documents a snapshot of the query delivers: the query has no
\* orderBy, so they come in document-id order.
RECURSIVE SeqById(_)
SeqById(S) ==
    IF S = {} THEN <<>>
    ELSE LET d == CHOOSE x \in S : \A y \in S : x.id <= y.id
         IN  <<d>> \o SeqById(S \ {d})

\* A listener that keeps the soft-deleted documents.
SnapshotUnfiltered == annotations' = SeqById(docs')

\* The state a snapshot of the query leaves in annotations (lines
\* 273-285): the documents without deleted_at.  A write made by this
\* client is delivered to the listener before the next event is handled.
Snapshot == annotations' = SeqById({d \in docs' : d.deleted_at = NoTime})

\* The component re-renders after every state change.
Rerender ==
    /\ segments' = renderText(text', annotations')
    /\ UNCHANGED renders

Init ==
    /\ text \in Texts
    /\ annotations = <<>>
    /\ segments = renderText(text, <<>>)
    /\ renders = 0
    /\ docs = {}
    /\ now = 1
    /\ selection = NULL
    /\ popoverOpen = FALSE
    /\ editMenuOpen = FALSE
    /\ selectedAnnotation = NULL
    /\ isEditing = FALSE
    /\ editText = text
    /\ readOnly \in BOOLEAN
    /\ tagsMap = TagIds
    /\ GroupIdle
    /\ PageIdle

\* The test of line 314 on the two resolved boundaries.
RangeAccepted(start, end) == start # -1 /\ end # -1 /\ start < end

\* onMouseUp of the text container.  The Range of the selection has its
\* boundary points in document order; selectionObj.toString() is the text
\* between them.
handleMouseUp ==
    /\ ~isEditing /\ ~readOnly
    /\ LET nodes == TextNodes(segments)
       IN  \/ \* no range, or a collapsed one (lines 293-296)
              /\ popoverOpen' = FALSE
              /\ UNCHANGED selection
           \/ \E s, e \in DomPoints(nodes) :
                 /\ s # e
                 /\ DomOrder(s, e)
                 /\ LET start == getAbsoluteOffset(nodes, s[1], s[2])
                        end == getAbsoluteOffset(nodes, e[1], e[2])
                        selectedText == slice(Concat(segments), start, end)
                    IN  IF RangeAccepted(start, end)
                        THEN /\ selection' = [start |-> start, end |-> end,
                                              text |-> selectedText]
                             /\ popoverOpen' = TRUE
                        ELSE UNCHANGED <<selection, popoverOpen>>
    /\ UNCHANGED <<text, annotations, storeVars, editMenuOpen,
                   selectedAnnotation, isEditing, editText, readOnly>>
    /\ Rerender
    /\ UNCHANGED <<groupVars, tagsMap, pageVars>>

\* The document addDoc writes for the selection (lines 343-352).
NewDoc(id, sel, tagId) ==
    [id |-> id, start_index |-> sel.start, end_index |-> sel.end,
     tag_id |-> tagId, text_content |-> sel.text,
     created_at |-> now, updated_at |-> now, deleted_at |-> NoTime]

\* addDoc with a document that removes the documents it overlaps, as a
\* store that merges overlapping spans would.
addDocMerging(d) ==
    {x \in docs : x.end_index <= d.start_index \/ d.end_index <= x.start_index}
        \cup {d}

\* addDoc(collection(db, "annotations"), d): the collection gains d.
addDoc(d) == docs \cup {d}

\* A tag button of the selection popover (rendered under line 532) is
\* clicked.  addDoc draws an id that no document has.
handleAddAnnotation(tagId) ==
    /\ popoverOpen /\ ~isEditing
    /\ tagId \in tagsMap
    /\ selection # NULL /\ ~readOnly
    /\ now <= MaxWrites
    /\ \E id \in DocIds \ {d.id : d \in docs} :
          docs' = addDoc(NewDoc(id, selection, tagId))
    /\ now' = now + 1
    /\ Snapshot
    /\ popoverOpen' = FALSE
    /\ selection' = NULL
    /\ UNCHANGED <<text, editMenuOpen, selectedAnnotation, isEditing,
                   editText, readOnly>>
    /\ Rerender
    /\ UNCHANGED <<groupVars, tagsMap, pageVars>>

\* An update that reaches every document of the collection, not only the
\* one with the given id.
UpdateDocAll(id, fields) ==
    {[f \in DOMAIN d |-> IF f \in DOMAIN fields THEN fields[f] ELSE d[f]]
        : d \in docs}

\* updateDoc(doc(db, "annotations", id), fields).
UpdateDoc(id, fields) ==
    {IF d.id = id THEN [f \in DOMAIN d |->
                            IF f \in DOMAIN fields THEN fields[f] ELSE d[f]]
                  ELSE d : d \in docs}

\* The edit menu is rendered (line 554).
EditMenuShown == editMenuOpen /\ selectedAnnotation # NULL /\ ~isEditing

\* "Delete Highlight" button of the edit menu (line 579).
handleDeleteAnnotation ==
    /\ EditMenuShown
    /\ ~isEditing /\ ~readOnly
    /\ now <= MaxWrites
    /\ docs' = UpdateDoc(selectedAnnotation.id, [deleted_at |-> now])
    /\ now' = now + 1
    /\ Snapshot
    /\ editMenuOpen' = FALSE
    /\ selectedAnnotation' = NULL
    /\ UNCHANGED <<text, selection, popoverOpen, isEditing, editText, readOnly>>
    /\ Rerender
    /\ UNCHANGED <<groupVars, tagsMap, pageVars>>

\* A tag button of the edit menu (lines 563-570).
handleChangeTag(newTagId) ==
    /\ EditMenuShown
    /\ newTagId \in tagsMap
    /\ newTagId # selectedAnnotation.tag_id
    /\ ~isEditing /\ ~readOnly
    /\ now <= MaxWrites
    /\ docs' = UpdateDoc(selectedAnnotation.id,
                         [tag_id |-> newTagId, updated_at |-> now])
    /\ now' = now + 1
    /\ Snapshot
    /\ editMenuOpen' = FALSE
    /\ selectedAnnotation' = NULL
    /\ UNCHANGED <<text, selection, popoverOpen, isEditing, editText, readOnly>>
    /\ Rerender
    /\ UNCHANGED <<groupVars, tagsMap, pageVars>>

\* "Cancel" button of the edit menu (lines 587-590).
cancelEditMenu ==
    /\ EditMenuShown
    /\ editMenuOpen' = FALSE
    /\ selectedAnnotation' = NULL
    /\ UNCHANGED <<text, annotations, storeVars, selection, popoverOpen,
                   isEditing, editText, readOnly>>
    /\ Rerender
    /\ UNCHANGED <<groupVars, tagsMap, pageVars>>

\* A rendered highlight is clicked (lines 474-479, 379-390); a span with
\* an empty text has no box to click on.
handleHighlightClick ==
    /\ ~isEditing /\ ~readOnly
    /\ \E s \in 1..Len(segments) :
          /\ segments[s].type = "highlight"
          /\ segments[s].text # <<>>
          /\ \E a \in 1..Len(annotations) :
                /\ <<"doc", annotations[a].id>> = segments[s].id
                /\ selectedAnnotation' = annotations[a]
    /\ editMenuOpen' = TRUE
    /\ UNCHANGED <<text, annotations, storeVars, selection, popoverOpen,
                   isEditing, editText, readOnly>>
    /\ Rerender
    /\ UNCHANGED <<groupVars, tagsMap, pageVars>>

\* An "Edit Text" button that is shown in read-only mode too.
startEditingAnyMode ==
    /\ ~isEditing
    /\ isEditing' = TRUE
    /\ UNCHANGED <<text, annotations, storeVars, selection, popoverOpen,
                   editMenuOpen, selectedAnnotation, editText, readOnly>>
    /\ Rerender
    /\ UNCHANGED <<groupVars, tagsMap, pageVars>>

\* "Edit Text" button (lines 522-526).
startEditing ==
    /\ ~isEditing /\ ~readOnly
    /\ isEditing' = TRUE
    /\ UNCHANGED <<text, annotations, storeVars, selection, popoverOpen,
                   editMenuOpen, selectedAnnotation, editText, readOnly>>
    /\ Rerender
    /\ UNCHANGED <<groupVars, tagsMap, pageVars>>

\* Textarea onChange (line 509).
setEditText ==
    /\ isEditing
    /\ editText' \in Texts \ {editText}
    /\ UNCHANGED <<text, annotations, storeVars, selection, popoverOpen,
                   editMenuOpen, selectedAnnotation, isEditing, readOnly>>
    /\ Rerender
    /\ UNCHANGED <<groupVars, tagsMap, pageVars>>

\* "Cancel" button of edit mode (line 496).
cancelEditing ==
    /\ isEditing
    /\ isEditing' = FALSE
    /\ editText' = text
    /\ UNCHANGED <<text, annotations, storeVars, selection, popoverOpen,
                   editMenuOpen, selectedAnnotation, readOnly>>
    /\ Rerender
    /\ UNCHANGED <<groupVars, tagsMap, pageVars>>

\* "Save" button of edit mode: handleSaveEdit when updateDoc succeeds.
\* onUpdate sets the prop text; saving is true only inside the handler.
\* When updateDoc fails the handler changes nothing (lines 402-407).
handleSaveEdit ==
    /\ isEditing
    /\ text' = editText
    /\ isEditing' = FALSE
    /\ UNCHANGED <<annotations, storeVars, selection, popoverOpen,
                   editMenuOpen, selectedAnnotation, editText, readOnly>>
    /\ Rerender
    /\ UNCHANGED <<groupVars, tagsMap, pageVars>>

Next ==
    \/ handleMouseUp
    \/ \E tagId \in TagIds : handleAddAnnotation(tagId)
    \/ handleHighlightClick
    \/ \E tagId \in TagIds : handleChangeTag(tagId)
    \/ handleDeleteAnnotation
    \/ cancelEditMenu
    \/ startEditing
    \/ setEditText
    \/ cancelEditing
    \/ handleSaveEdit

Spec == Init /\ [][Next]_vars

\* ---------------------------------------------------------------------
\* A second Highlighter of the same user on the same paper (another tab or
\* device).  Its writes reach the collection and then, through the
\* listener of lines 273-285, the annotations of this one; the other
\* state of this component is not touched by a snapshot.
\* ---------------------------------------------------------------------
\* The other client tags a selection of the text it shows.
remoteAddAnnotation ==
    /\ now <= MaxWrites
    /\ \E id \in DocIds \ {d.id : d \in docs}, t \in Texts, tagId \in tagsMap :
          \E r \in Ranges(t) :
              docs' = addDoc(NewDoc(id, [start |-> r[1], end |-> r[2],
                                         text |-> slice(t, r[1], r[2])], tagId))
    /\ now' = now + 1
    /\ Snapshot
    /\ UNCHANGED <<text, uiVars>>
    /\ Rerender
    /\ UNCHANGED <<groupVars, tagsMap, pageVars>>

\* The other client deletes a highlight it shows, that is a live one.
remoteDeleteAnnotation ==
    /\ now <= MaxWrites
    /\ \E d \in docs :
          /\ d.deleted_at = NoTime
          /\ docs' = UpdateDoc(d.id, [deleted_at |-> now])
    /\ now' = now + 1
    /\ Snapshot
    /\ UNCHANGED <<text, uiVars>>
    /\ Rerender
    /\ UNCHANGED <<groupVars, tagsMap, pageVars>>

\* The other client changes the tag of a highlight it shows.
remoteChangeTag ==
    /\ now <= MaxWrites
    /\ \E d \in docs, newTagId \in tagsMap :
          /\ d.deleted_at = NoTime
          /\ newTagId # d.tag_id
          /\ docs' = UpdateDoc(d.id, [tag_id |-> newTagId, updated_at |-> now])
    /\ now' = now + 1
    /\ Snapshot
    /\ UNCHANGED <<text, uiVars>>
    /\ Rerender
    /\ UNCHANGED <<groupVars, tagsMap, pageVars>>

NextShared ==
    \/ Next
    \/ remoteAddAnnotation
    \/ remoteDeleteAnnotation
    \/ remoteChangeTag

SpecShared == Init /\ [][NextShared]_vars

\* ---------------------------------------------------------------------
\* The tag manager of the same user, open next to the Highlighter.  The
\* "tags" collection is listened to by both (lines 249-260).
\* ---------------------------------------------------------------------
\* A tag deletion that also removes the spans carrying the tag.
handleDeleteTagCascade(id) ==
    /\ id \in tagsMap
    /\ tagsMap' = tagsMap \ {id}
    /\ docs' = {d \in docs : d.tag_id # id}
    /\ UNCHANGED <<text, now, uiVars>>
    /\ Snapshot
    /\ Rerender
    /\ UNCHANGED <<groupVars, pageVars>>

\* TagManager.handleDeleteTag(id), the dialog confirmed: deleteDoc on the
\* tag document and nothing else; the tags listener of the Highlighter
\* then drops the tag from its map.
handleDeleteTag(id) ==
    /\ id \in tagsMap
    /\ tagsMap' = tagsMap \ {id}
    /\ UNCHANGED <<text, storeVars, uiVars>>
    /\ Snapshot
    /\ Rerender
    /\ UNCHANGED <<groupVars, pageVars>>

\* The span handlers of the Highlighter on a text that is not edited, and
\* the tag manager.
NextTagStore ==
    \/ handleMouseUp
    \/ \E tagId \in TagIds : handleAddAnnotation(tagId)
    \/ handleHighlightClick
    \/ \E tagId \in TagIds : handleChangeTag(tagId)
    \/ handleDeleteAnnotation
    \/ cancelEditMenu
    \/ \E id \in TagIds : handleDeleteTag(id)

SpecTagStore == Init /\ [][NextTagStore]_vars

\* ---------------------------------------------------------------------
\* getAbsoluteOffset as a function: one call on a boundary point of the
\* container rendered from (text, annotations).
\* ---------------------------------------------------------------------
\* The offset argument is a number: the values up to one beyond the
\* longest text node.
Offsets == 0..(MaxRenderLen + 1)

InitOffset ==
    /\ text \in RenderTexts
    /\ \E n \in 0..MaxSpans :
          \E f \in [1..n -> Ranges(text) \X {"t1"}] :
              annotations = RenderInput(text, n, f)
    /\ segments = renderText(text, annotations)
    /\ renders = 0
    /\ docs = {}
    /\ now = 1
    /\ selection = NULL
    /\ popoverOpen = FALSE
    /\ editMenuOpen = FALSE
    /\ selectedAnnotation = NULL
    /\ isEditing = FALSE
    /\ editText = text
    /\ readOnly = FALSE
    /\ tagsMap = TagIds
    /\ GroupIdle
    /\ position \in (0..Len(TextNodes(segments))) \X Offsets
    /\ resolved = NULL
    /\ SessionIdle

\* One call getAbsoluteOffset(container, node, offset).
GetAbsoluteOffset ==
    /\ resolved = NULL
    /\ resolved' = [value |-> getAbsoluteOffset(TextNodes(segments),
                                                position[1], position[2])]
    /\ UNCHANGED <<highlighterVars, groupVars, position, sessionVars>>

NextOffset == GetAbsoluteOffset

SpecOffset == InitOffset /\ [][NextOffset]_vars

\* =====================================================================
\* Tag grouping (src/utils/tag-grouping.ts)
\* =====================================================================
\* Strings are sequences of one-character strings.  The characters used,
\* in the order of their UTF-16 code units (upper case before lower case).
CodeOrder == <<"A", "M", "R", "a", "b", "d", "e", "g", "h", "i", "k", "l",
               "m", "n", "o", "r", "s", "t", "u">>

Code(c) == CHOOSE i \in 1..Len(CodeOrder) : CodeOrder[i] = c

\* A lower-casing that leaves every character as it is.
toLowerCaseNone(str) == str

\* String.prototype.toLowerCase on the characters above.
toLowerCase(str) ==
    [i \in 1..Len(str) |->
        CASE str[i] = "A" -> "a"
          [] str[i] = "M" -> "m"
          [] str[i] = "R" -> "r"
          [] OTHER -> str[i]]

\* String.prototype.includes: a search for the first position at which
\* searchString occurs in str.
includes(str, searchString) ==
    \E k \in 0..Len(str) :
        /\ k + Len(searchString) <= Len(str)
        /\ \A i \in 1..Len(searchString) : str[k + i] = searchString[i]

Min3(a, b, c) == Min(a, Min(b, c))

\* The matrix with the substitution taken at no cost.
RECURSIVE matrixFreeSubstitution(_, _, _, _)
matrixFreeSubstitution(a, b, i, j) ==
    IF i = 0 THEN j
    ELSE IF j = 0 THEN i
    ELSE IF b[i] = a[j] THEN matrixFreeSubstitution(a, b, i - 1, j - 1)
    ELSE Min3(matrixFreeSubstitution(a, b, i - 1, j - 1),
              matrixFreeSubstitution(a, b, i, j - 1) + 1,
              matrixFreeSubstitution(a, b, i - 1, j) + 1)

\* matrix[i][j] of levenshteinDistance (lines 50-74): row i belongs to the
\* first i characters of b, column j to the first j characters of a.
RECURSIVE matrix(_, _, _, _)
matrix(a, b, i, j) ==
    IF i = 0 THEN j
    ELSE IF j = 0 THEN i
    ELSE IF b[i] = a[j] THEN matrix(a, b, i - 1, j - 1)
    ELSE Min3(matrix(a, b, i - 1, j - 1) + 1,
              matrix(a, b, i, j - 1) + 1,
              matrix(a, b, i - 1, j) + 1)

levenshteinDistance(a, b) == matrix(a, b, Len(b), Len(a))

\* The test of line 39.
sameTest(s1, s2) == toLowerCase(s1) = toLowerCase(s2)

\* A substring test that looks for s2 in s1 only.
containsTestOneWay(s1, s2) == includes(toLowerCase(s1), toLowerCase(s2))

\* The test of line 42.
containsTest(s1, s2) ==
    \/ includes(toLowerCase(s1), toLowerCase(s2))
    \/ includes(toLowerCase(s2), toLowerCase(s1))

\* The similarity with the distance compared strictly.
areTagsSimilarStrict(s1, s2, th) ==
    IF sameTest(s1, s2) THEN TRUE
    ELSE IF containsTest(s1, s2) THEN TRUE
    ELSE levenshteinDistance(toLowerCase(s1), toLowerCase(s2)) < th

areTagsSimilar(s1, s2, th) ==
    IF sameTest(s1, s2) THEN TRUE
    ELSE IF containsTest(s1, s2) THEN TRUE
    ELSE levenshteinDistance(toLowerCase(s1), toLowerCase(s2)) <= th

\* The order of Array.prototype.sort without a comparator: strings are
\* compared by their code units, a proper prefix comes first.
RECURSIVE StrLess(_, _)
StrLess(x, y) ==
    IF y = <<>> THEN FALSE
    ELSE IF x = <<>> THEN TRUE
    ELSE IF Head(x) = Head(y) THEN StrLess(Tail(x), Tail(y))
    ELSE Code(Head(x)) < Code(Head(y))

RECURSIVE InsertLabel(_, _)
InsertLabel(sorted, x) ==
    IF sorted = <<>> THEN <<x>>
    ELSE IF StrLess(x, Head(sorted)) THEN <<x>> \o sorted
    ELSE <<Head(sorted)>> \o InsertLabel(Tail(sorted), x)

RECURSIVE SortLabels(_, _)
SortLabels(tags, acc) ==
    IF tags = <<>> THEN acc
    ELSE SortLabels(Tail(tags), InsertLabel(acc, Head(tags)))

\* The grouping run on the array as given, without the sort.
sortedTagsUnsorted(tags) == tags

\* Line 12: const sortedTags = [...tags].sort().
sortedTags(tags) == SortLabels(tags, <<>>)

\* The inner loop without the test of line 26: every label not yet visited
\* joins the group.
RECURSIVE innerLoopAll(_, _, _, _, _)
innerLoopAll(rest, tag, th, members, visited) ==
    IF rest = <<>> THEN [tags |-> members, visited |-> visited]
    ELSE IF Head(rest) \in visited
         THEN innerLoopAll(Tail(rest), tag, th, members, visited)
         ELSE innerLoopAll(Tail(rest), tag, th, Append(members, Head(rest)),
                           visited \cup {Head(rest)})

\* The inner loop without the test of line 24.
RECURSIVE innerLoopNoVisited(_, _, _, _, _)
innerLoopNoVisited(rest, tag, th, members, visited) ==
    IF rest = <<>> THEN [tags |-> members, visited |-> visited]
    ELSE IF areTagsSimilar(tag, Head(rest), th)
         THEN innerLoopNoVisited(Tail(rest), tag, th, Append(members, Head(rest)),
                                 visited \cup {Head(rest)})
         ELSE innerLoopNoVisited(Tail(rest), tag, th, members, visited)

\* Lines 23-30: the scan of sortedTags for the group of tag.
RECURSIVE innerLoop(_, _, _, _, _)
innerLoop(rest, tag, th, members, visited) ==
    IF rest = <<>> THEN [tags |-> members, visited |-> visited]
    ELSE IF Head(rest) \in visited
         THEN innerLoop(Tail(rest), tag, th, members, visited)
    ELSE IF areTagsSimilar(tag, Head(rest), th)
         THEN innerLoop(Tail(rest), tag, th, Append(members, Head(rest)),
                        visited \cup {Head(rest)})
         ELSE innerLoop(Tail(rest), tag, th, members, visited)

\* Lines 14-32: the loop over sortedTags that opens the groups.
RECURSIVE outerLoop(_, _, _, _, _)
outerLoop(rest, sorted, th, acc, visited) ==
    IF rest = <<>> THEN acc
    ELSE IF Head(rest) \in visited
         THEN outerLoop(Tail(rest), sorted, th, acc, visited)
    ELSE LET tag == Head(rest)
             currentGroup == innerLoop(sorted, tag, th, <<tag>>, visited \cup {tag})
         IN  outerLoop(Tail(rest), sorted, th,
                       Append(acc, [name |-> tag, tags |-> currentGroup.tags]),
                       currentGroup.visited)

groupTags(tags, th) == outerLoop(sortedTags(tags), sortedTags(tags), th, <<>>, {})

\* Line 6: threshold: number = 3 when the argument is omitted.
DefaultThreshold == 3
groupTagsDefault(tags) == groupTags(tags, DefaultThreshold)

\* ------------------------------------------------------- the two drivers
\* The labels the grouping is run on.
LabelPool ==
    {<<>>, <<"a">>, <<"A">>, <<"b">>, <<"a", "b">>, <<"A", "b">>,
     <<"b", "b">>, <<"b", "a">>}

Thresholds == 0..MaxThreshold

\* The strings the string metric is run on.
MetricAlphabet == {"A", "a", "b"}
Strings == UNION {[1..n -> MetricAlphabet] : n \in 0..MaxLabelLen}

\* The Highlighter is not mounted: its state is the one before any event.
HighlighterIdle ==
    /\ text = <<>>
    /\ annotations = <<>>
    /\ segments = <<>>
    /\ renders = 0
    /\ docs = {}
    /\ now = 1
    /\ selection = NULL
    /\ popoverOpen = FALSE
    /\ editMenuOpen = FALSE
    /\ selectedAnnotation = NULL
    /\ isEditing = FALSE
    /\ editText = <<>>
    /\ readOnly = FALSE
    /\ tagsMap = TagIds

InitTags ==
    /\ HighlighterIdle
    /\ PageIdle
    /\ \E n \in 0..MaxLabels : labels \in [1..n -> LabelPool]
    /\ threshold \in Thresholds
    /\ groups = <<>>
    /\ grouped = FALSE
    /\ distance = NULL
    /\ similar = NULL

\* One call groupTags(labels, threshold).
GroupTags ==
    /\ ~grouped
    /\ groups' = groupTags(labels, threshold)
    /\ grouped' = TRUE
    /\ UNCHANGED <<highlighterVars, pageVars, labels, threshold, distance, similar>>

NextTags == GroupTags

SpecTags == InitTags /\ [][NextTags]_vars

InitMetric ==
    /\ HighlighterIdle
    /\ PageIdle
    /\ labels \in [1..2 -> Strings]
    /\ threshold \in Thresholds
    /\ groups = <<>>
    /\ grouped = FALSE
    /\ distance = NULL
    /\ similar = NULL

\* One call levenshteinDistance(labels[1], labels[2]).
LevenshteinDistance ==
    /\ distance = NULL
    /\ distance' = [value |-> levenshteinDistance(labels[1], labels[2])]
    /\ UNCHANGED <<highlighterVars, pageVars, labels, threshold, groups, grouped, similar>>

\* One call areTagsSimilar(labels[1], labels[2], threshold).
AreTagsSimilar ==
    /\ similar = NULL
    /\ similar' = [value |-> areTagsSimilar(labels[1], labels[2], threshold)]
    /\ UNCHANGED <<highlighterVars, pageVars, labels, threshold, groups, grouped, distance>>

NextMetric == LevenshteinDistance \/ AreTagsSimilar

SpecMetric == InitMetric /\ [][NextMetric]_vars

\* =====================================================================
\* Session tracking of the paper page (src/app/paper/[id]/page.tsx)
\* =====================================================================
\* One user, one paper: every document of "paper_sessions" belongs to the
\* pair.  Each page (tab) has its refs, its interval timer and the
\* requests it has sent and not yet seen answered.
HeartbeatMs == 1000    \* the period of setInterval
MsPerSecond == 1000    \* the divisor of the duration
TickMs == HeartbeatMs \div TicksPerBeat
StartMs == HeartbeatMs \* Date.now() at the start: a time that is not 0
EndMs == StartMs + MaxTicks * TickMs

SessionIds == 1..MaxTabs   \* auto-generated ids, in the order of the query

NewTab ==
    [status          |-> "new",     \* new, mounted, unmounted
     init            |-> "idle",    \* initSession: idle, getDocs, addDoc, done
     sessionIdRef    |-> 0,         \* 0 for null
     sessionStartRef |-> 0,
     isVisibleRef    |-> TRUE,
     pausedTimeRef   |-> 0,
     hidden          |-> FALSE,     \* document.hidden
     nextBeat        |-> 0,         \* when the interval fires next
     pending         |-> <<>>,      \* requests awaiting getDoc / updateDoc
     visibleMs       |-> 0]         \* time spent mounted with the tab visible

\* n pages that are about to be mounted.
InitPages(n) ==
    /\ HighlighterIdle
    /\ GroupIdle
    /\ OffsetIdle
    /\ sessions = <<>>
    /\ tabs = [t \in 1..n |-> NewTab]
    /\ clock = StartMs

\* One page, from its mount to its unmount and the answers after it.
InitSession == InitPages(1)

\* Math.floor((Date.now() - sessionStartRef.current) / 1000).
currentDuration(tab) == (clock - tab.sessionStartRef) \div MsPerSecond

\* The first part of updateSessionDuration / saveSession, up to the await
\* of getDoc (lines 111-116, 137-142); the test of line 111 / 137 is made
\* by the caller below.
Request(kind, tab) ==
    [kind |-> kind, currentDuration |-> currentDuration(tab),
     await |-> "getDoc", existingDuration |-> 0]

Remove(seq, k) == SubSeq(seq, 1, k - 1) \o SubSeq(seq, k + 1, Len(seq))

\* The page is mounted: the effects run, initSession sends its query and
\* the interval is set (lines 32-67, 78-108).
mount(t) ==
    /\ tabs[t].status = "new"
    /\ tabs' = [tabs EXCEPT ![t].status = "mounted",
                            ![t].init = "getDocs",
                            ![t].nextBeat = clock + HeartbeatMs]
    /\ UNCHANGED <<sessions, clock>>
    /\ UNCHANGED <<highlighterVars, groupVars, offsetVars>>

\* getDocs of initSession answers (lines 43-60): with no document the
\* addDoc is sent, otherwise the first document is taken.
initSessionQueried(t) ==
    /\ tabs[t].init = "getDocs"
    /\ IF DOMAIN sessions = {}
       THEN tabs' = [tabs EXCEPT ![t].init = "addDoc"]
       ELSE tabs' = [tabs EXCEPT
                        ![t].init = "done",
                        ![t].sessionIdRef =
                            CHOOSE id \in DOMAIN sessions :
                                \A other \in DOMAIN sessions : id <= other,
                        ![t].sessionStartRef = clock]
    /\ UNCHANGED <<sessions, clock>>
    /\ UNCHANGED <<highlighterVars, groupVars, offsetVars>>

\* addDoc of initSession answers (lines 47-60).
initSessionCreated(t) ==
    /\ tabs[t].init = "addDoc"
    /\ \E id \in SessionIds \ DOMAIN sessions :
          /\ sessions' = [i \in DOMAIN sessions \cup {id} |->
                            IF i = id THEN 0 ELSE sessions[i]]
          /\ tabs' = [tabs EXCEPT ![t].init = "done",
                                  ![t].sessionIdRef = id,
                                  ![t].sessionStartRef = clock]
    /\ UNCHANGED clock
    /\ UNCHANGED <<highlighterVars, groupVars, offsetVars>>

\* visibilitychange (lines 79-93).
handleVisibilityChange(t) ==
    /\ tabs[t].status = "mounted"
    /\ IF ~tabs[t].hidden
       THEN tabs' = [tabs EXCEPT ![t].hidden = TRUE,
                                 ![t].isVisibleRef = FALSE,
                                 ![t].pausedTimeRef = clock]
       ELSE tabs' = [tabs EXCEPT
                        ![t].hidden = FALSE,
                        ![t].sessionStartRef =
                            IF ~tabs[t].isVisibleRef /\ tabs[t].pausedTimeRef > 0
                            THEN @ + (clock - tabs[t].pausedTimeRef)
                            ELSE @,
                        ![t].isVisibleRef = TRUE]
    /\ UNCHANGED <<sessions, clock>>
    /\ UNCHANGED <<highlighterVars, groupVars, offsetVars>>

\* The interval fires (lines 101-105) and, with a session and the tab
\* visible, calls updateSessionDuration up to its first await.
heartbeat(t) ==
    /\ tabs[t].status = "mounted"
    /\ clock >= tabs[t].nextBeat
    /\ IF /\ tabs[t].sessionIdRef # 0 /\ tabs[t].isVisibleRef
          /\ tabs[t].sessionStartRef # 0
       THEN /\ Len(tabs[t].pending) < MaxPending
            /\ tabs' = [tabs EXCEPT
                           ![t].nextBeat = @ + HeartbeatMs,
                           ![t].pending = Append(@, Request("update", tabs[t]))]
       ELSE tabs' = [tabs EXCEPT ![t].nextBeat = @ + HeartbeatMs]
    /\ UNCHANGED <<sessions, clock>>
    /\ UNCHANGED <<highlighterVars, groupVars, offsetVars>>

\* The page is unmounted: the cleanups run (lines 70-74, 96, 107) and,
\* with a session, saveSession is called up to its first await.
unmount(t) ==
    /\ tabs[t].status = "mounted"
    /\ IF tabs[t].sessionIdRef # 0 /\ tabs[t].sessionStartRef # 0
       THEN /\ Len(tabs[t].pending) < MaxPending
            /\ tabs' = [tabs EXCEPT
                           ![t].status = "unmounted",
                           ![t].pending = Append(@, Request("save", tabs[t]))]
       ELSE tabs' = [tabs EXCEPT ![t].status = "unmounted"]
    /\ UNCHANGED <<sessions, clock>>
    /\ UNCHANGED <<highlighterVars, groupVars, offsetVars>>

\* getDoc of request k answers (lines 116-121, 142-147): the document
\* exists, its duration is read and the updateDoc is sent.
getDocAnswered(t, k) ==
    /\ k \in 1..Len(tabs[t].pending)
    /\ tabs[t].pending[k].await = "getDoc"
    /\ tabs[t].sessionIdRef \in DOMAIN sessions
    /\ tabs' = [tabs EXCEPT
                   ![t].pending[k].await = "updateDoc",
                   ![t].pending[k].existingDuration =
                       sessions[tabs[t].sessionIdRef]]
    /\ UNCHANGED <<sessions, clock>>
    /\ UNCHANGED <<highlighterVars, groupVars, offsetVars>>

\* updateDoc of request k answers (lines 121-129, 147-152): the new total
\* is stored; updateSessionDuration then resets sessionStartRef.
updateDocAnswered(t, k) ==
    /\ k \in 1..Len(tabs[t].pending)
    /\ tabs[t].pending[k].await = "updateDoc"
    /\ LET r == tabs[t].pending[k]
       IN  /\ sessions' = [sessions EXCEPT ![tabs[t].sessionIdRef] =
                              r.existingDuration + r.currentDuration]
           /\ tabs' = [tabs EXCEPT
                          ![t].pending = Remove(@, k),
                          ![t].sessionStartRef =
                              IF r.kind = "update" THEN clock ELSE @]
    /\ UNCHANGED clock
    /\ UNCHANGED <<highlighterVars, groupVars, offsetVars>>

\* Time passes; an interval that is due fires first.
tick ==
    /\ clock + TickMs <= EndMs
    /\ \A t \in DOMAIN tabs :
          tabs[t].status = "mounted" => clock < tabs[t].nextBeat
    /\ clock' = clock + TickMs
    /\ tabs' = [t \in DOMAIN tabs |->
                  IF tabs[t].status = "mounted" /\ ~tabs[t].hidden
                  THEN [tabs[t] EXCEPT !.visibleMs = @ + TickMs]
                  ELSE tabs[t]]
    /\ UNCHANGED sessions
    /\ UNCHANGED <<highlighterVars, groupVars, offsetVars>>

NextSession ==
    \/ \E t \in DOMAIN tabs : mount(t)
    \/ \E t \in DOMAIN tabs : initSessionQueried(t)
    \/ \E t \in DOMAIN tabs : initSessionCreated(t)
    \/ \E t \in DOMAIN tabs : handleVisibilityChange(t)
    \/ \E t \in DOMAIN tabs : heartbeat(t)
    \/ \E t \in DOMAIN tabs : unmount(t)
    \/ \E t \in DOMAIN tabs, k \in 1..MaxPending : getDocAnswered(t, k)
    \/ \E t \in DOMAIN tabs, k \in 1..MaxPending : updateDocAnswered(t, k)
    \/ tick

SpecSession == InitSession /\ [][NextSession]_vars

\* Several pages of the same user on the same paper, within a time too
\* short for the clock to advance: mounts, initSession runs, visibility
\* changes, unmounts and the answers of the store.
InitMounts == InitPages(MaxTabs)

NextMounts ==
    \/ \E t \in DOMAIN tabs : mount(t)
    \/ \E t \in DOMAIN tabs : initSessionQueried(t)
    \/ \E t \in DOMAIN tabs : initSessionCreated(t)
    \/ \E t \in DOMAIN tabs : handleVisibilityChange(t)
    \/ \E t \in DOMAIN tabs : unmount(t)
    \/ \E t \in DOMAIN tabs, k \in 1..MaxPending : getDocAnswered(t, k)
    \/ \E t \in DOMAIN tabs, k \in 1..MaxPending : updateDocAnswered(t, k)

SpecMounts == InitMounts /\ [][NextMounts]_vars

\* =====================================================================
\* Properties of the segment builder (specification SpecRender)
\* =====================================================================

RECURSIVE TotalLen(_)
TotalLen(segs) ==
    IF segs = <<>> THEN 0 ELSE Len(Head(segs).text) + TotalLen(Tail(segs))

\* Offset in the concatenation at which segment i starts.
SegStart(segs, i) == TotalLen(SubSeq(segs, 1, i - 1))

Rendered == renders > 0

AnnIdx == 1..Len(annotations)
SegIdx == 1..Len(segments)

Covers(a, p) == a.start_index <= p /\ p < a.end_index

\* a comes before b in start order, ties by position in the snapshot.
Before(i, j) ==
    \/ annotations[i].start_index < annotations[j].start_index
    \/ /\ annotations[i].start_index = annotations[j].start_index
       /\ i < j

\* The end of the region claimed by the spans swept before span i.
CursorBefore(i) ==
    LET ends == {annotations[j].end_index : j \in {k \in AnnIdx : Before(k, i)}}
    IN  IF ends = {} THEN 0 ELSE CHOOSE e \in ends : \A x \in ends : x <= e

SegsOf(i) ==
    {s \in SegIdx : /\ segments[s].type = "highlight"
                    /\ segments[s].id = <<"doc", annotations[i].id>>}

Text10 == <<"k", "l", "m", "n", "o", "p", "q", "r", "s", "t">>

\* C1: the texts of the segments built for a valid (text, live spans)
\* concatenate, in order, to exactly the text, whatever the overlaps.
C1_ConcatIsText == Rendered => Concat(segments) = text

C1_Witness ==
    /\ Rendered
    /\ Len(segments) >= 2
    /\ \E i, j \in AnnIdx :
          /\ annotations[i].start_index < annotations[j].start_index
          /\ annotations[j].start_index < annotations[i].end_index
          /\ annotations[i].end_index < annotations[j].end_index

\* C2: no two adjacent segments are both Plain: a Plain segment is followed
\* by a Highlighted segment or is the last one.
C2_NoAdjacentPlain ==
    Rendered =>
        \A s \in SegIdx :
            segments[s].type = "text" =>
                \/ s = Len(segments)
                \/ segments[s + 1].type = "highlight"

C2_Witness ==
    /\ Rendered
    /\ Len(segments) = 3
    /\ segments[1].type = "text"
    /\ segments[2].type = "highlight"
    /\ segments[3].type = "text"

\* C3: with unique span ids, each live span contributes at most one
\* Highlighted segment, so no two adjacent Highlighted segments carry the
\* same span id.
C3_OneHighlightPerSpan ==
    Rendered =>
        /\ \A i \in AnnIdx : Cardinality(SegsOf(i)) <= 1
        /\ \A s \in SegIdx :
              (s < Len(segments) /\ segments[s].type = "highlight"
                  /\ segments[s + 1].type = "highlight")
              => segments[s].id # segments[s + 1].id

C3_Witness ==
    /\ Rendered
    /\ \E s \in SegIdx :
          /\ s < Len(segments)
          /\ segments[s].type = "highlight"
          /\ segments[s + 1].type = "highlight"
          /\ segments[s].tagId = segments[s + 1].tagId

\* C4: a live span whose end is not beyond the cursor reached by the spans
\* swept before it produces no segment; spans [0,10) tagA and [5,8) tagB
\* yield the single Highlighted segment of [0,10) with tagA.
C4_AbsorbedSpanEmitsNothing ==
    /\ Rendered =>
          \A i \in AnnIdx :
              annotations[i].end_index <= CursorBefore(i) => SegsOf(i) = {}
    /\ renderText(Text10, <<Annotation(1, Text10, <<0, 10>>, "t1"),
                            Annotation(2, Text10, <<5, 8>>, "t2")>>)
         = <<[text |-> Text10, type |-> "highlight",
              id |-> <<"doc", 1>>, tagId |-> "t1"]>>

C4_Witness ==
    /\ Rendered
    /\ \E i \in AnnIdx :
          /\ annotations[i].end_index <= CursorBefore(i)
          /\ SegsOf(i) = {}
          /\ \E j \in AnnIdx : j # i /\ SegsOf(j) # {}

\* C5: a span starting exactly at the cursor gets no Plain segment before
\* it, no segment has empty text, and spans [0,5), [5,10) over a text of
\* 10 characters yield exactly two Highlighted segments.
C5_NoGapNoEmptySegment ==
    /\ Rendered =>
          /\ \A s \in SegIdx : segments[s].text # <<>>
          /\ \A i \in AnnIdx :
                annotations[i].start_index = CursorBefore(i) =>
                    \A s \in SegsOf(i) :
                        s = 1 \/ segments[s - 1].type = "highlight"
    /\ renderText(Text10, <<Annotation(1, Text10, <<0, 5>>, "t1"),
                            Annotation(2, Text10, <<5, 10>>, "t2")>>)
         = <<[text |-> SubSeq(Text10, 1, 5), type |-> "highlight",
              id |-> <<"doc", 1>>, tagId |-> "t1"],
             [text |-> SubSeq(Text10, 6, 10), type |-> "highlight",
              id |-> <<"doc", 2>>, tagId |-> "t2"]>>

C5_Witness ==
    /\ Rendered
    /\ Len(segments) = 2
    /\ segments[1].type = "highlight"
    /\ segments[2].type = "highlight"
    /\ \E i, j \in AnnIdx :
          /\ annotations[i].end_index = annotations[j].start_index
          /\ SegsOf(i) = {1}
          /\ SegsOf(j) = {2}

\* The segment holding character position p of the concatenation.
SegAt(p) ==
    CHOOSE s \in SegIdx :
        /\ SegStart(segments, s) <= p
        /\ p < SegStart(segments, s) + Len(segments[s].text)

\* The first span, in start order, that covers p.
FirstCover(p) ==
    CHOOSE i \in AnnIdx :
        /\ Covers(annotations[i], p)
        /\ \A j \in AnnIdx : Covers(annotations[j], p) => (j = i \/ Before(i, j))

\* C6: left-biased overlap policy: position p lies in a Highlighted segment
\* iff some live span covers p, and then the segment carries the span id
\* and tag id of the first span, in start order, that covers p.
C6_LeftBiased ==
    Rendered =>
        /\ TotalLen(segments) = Len(text)
        /\ \A p \in 0..(Len(text) - 1) :
              LET seg == segments[SegAt(p)]
                  covered == \E i \in AnnIdx : Covers(annotations[i], p)
              IN  /\ (seg.type = "highlight") <=> covered
                  /\ covered =>
                        /\ seg.id = <<"doc", annotations[FirstCover(p)].id>>
                        /\ seg.tagId = annotations[FirstCover(p)].tag_id

C6_Witness ==
    /\ Rendered
    /\ \E i, j \in AnnIdx :
          /\ Before(i, j)
          /\ annotations[i].tag_id # annotations[j].tag_id
          /\ annotations[j].start_index < annotations[i].end_index
          /\ annotations[i].end_index < annotations[j].end_index
          /\ \E s \in SegsOf(j) :
                SegStart(segments, s) = annotations[i].end_index

SortedIdx == 1..Len(sortedAnns(annotations))

\* Position of the record with document id d in the snapshot array.
PosInSnapshot(d) == CHOOSE i \in AnnIdx : annotations[i].id = d

SortedByStart ==
    \A i, j \in SortedIdx :
        i < j => sortedAnns(annotations)[i].start_index
                    <= sortedAnns(annotations)[j].start_index

SameRecords ==
    /\ Len(sortedAnns(annotations)) = Len(annotations)
    /\ \A i \in AnnIdx : \E j \in SortedIdx : sortedAnns(annotations)[j] = annotations[i]

\* C8 (as stated): the swept sequence is sorted by start ascending, and two
\* live spans with equal start appear in the order of their insertion.
C8_TiesByInsertionOrder ==
    /\ SortedByStart
    /\ \A i, j \in SortedIdx :
          LET a == sortedAnns(annotations)[i]
              b == sortedAnns(annotations)[j]
          IN  (i < j /\ a.start_index = b.start_index)
                  => a.created_at < b.created_at

\* C8 (amended): the swept sequence holds the records of the snapshot,
\* sorted by start ascending, and two live spans with equal start appear
\* in the order in which the snapshot delivered them.
C8_TiesBySnapshotOrder ==
    /\ SameRecords
    /\ SortedByStart
    /\ \A i, j \in SortedIdx :
          LET a == sortedAnns(annotations)[i]
              b == sortedAnns(annotations)[j]
          IN  (i < j /\ a.start_index = b.start_index)
                  => PosInSnapshot(a.id) < PosInSnapshot(b.id)

C8_Witness ==
    /\ Len(annotations) = 2
    /\ annotations[1].start_index = annotations[2].start_index
    /\ annotations[1].created_at > annotations[2].created_at
    /\ sortedAnns(annotations) = annotations

InRange(start, end, t) == 0 <= start /\ start < end /\ end <= Len(t)

NewDocs == {d \in docs' : d.id \notin {x.id : x \in docs}}

\* The part of C9 about handleMouseUp: whenever the selection state is
\* set, its boundaries satisfy 0 <= start < end <= len(text).
C9_SelectionSetOnlyInRange ==
    [][(selection' # selection /\ selection' # NULL)
          => InRange(selection'.start, selection'.end, text)]_vars

\* C9: a selection whose boundaries do not satisfy start < end, or do not
\* resolve, or lie outside [0, len(text)] never sets the selection state
\* and never creates a span.
C9_InvalidRangeCreatesNoSpan ==
    [][/\ (selection' # selection /\ selection' # NULL)
             => InRange(selection'.start, selection'.end, text)
       /\ \A d \in NewDocs : InRange(d.start_index, d.end_index, text)]_vars

\* C10: every stored span satisfies 0 <= start < end <= len(text) for the
\* current canonical text.
C10_SpansWithinText ==
    \A d \in docs : InRange(d.start_index, d.end_index, text)

\* Every stored span has 0 <= start < end, whatever the text has become.
SpansNonEmpty == \A d \in docs : 0 <= d.start_index /\ d.start_index < d.end_index

\* =====================================================================
\* Properties of the shared annotations collection (specification
\* SpecShared)
\* =====================================================================
DocIdsOf(D) == {d.id : d \in D}

Live(id) == \E d \in docs : d.id = id /\ d.deleted_at = NoTime

\* The step is a write issued from this client's edit menu.
MenuWrite == handleDeleteAnnotation \/ \E t \in TagIds : handleChangeTag(t)

\* C11: a soft delete or a retag issued for an id that has no live span
\* fails, that is, it writes nothing; also when the span was soft-deleted
\* by another client while the edit menu was open for it.
C11_NoLiveSpanNotFound ==
    [][(MenuWrite /\ ~Live(selectedAnnotation.id)) => docs' = docs]_vars

\* e is the record of span d with the fields fixed at creation unchanged.
SameSpan(d, e) ==
    /\ e.id = d.id
    /\ e.start_index = d.start_index
    /\ e.end_index = d.end_index
    /\ e.text_content = d.text_content
    /\ e.created_at = d.created_at

\* C12: no step changes the start, end, cached text or createdAt of a
\* stored span; a step that changes a span's tagId changes, besides it,
\* only the span's updatedAt, and leaves every other span as it was.
C12_RetagFrame ==
    [][\A d \in docs :
          \E e \in docs' :
              /\ SameSpan(d, e)
              /\ e.tag_id # d.tag_id =>
                    /\ e.deleted_at = d.deleted_at
                    /\ e.updated_at > d.updated_at
                    /\ \A x \in docs \ {d} : x \in docs']_vars

C12_Witness ==
    \E d, x \in docs :
        /\ d.id # x.id
        /\ d.deleted_at = NoTime
        /\ x.created_at < d.updated_at
        /\ d.created_at < d.updated_at

\* C13: an operation that fails leaves every span as it was: a mouse-up
\* writes nothing to the store, and a span that is soft-deleted keeps all
\* its fields, deletedAt, tagId and updatedAt included, in every step.
C13_FailedOperationChangesNothing ==
    [][/\ handleMouseUp => (docs' = docs /\ annotations' = annotations)
       /\ \A d \in docs : d.deleted_at # NoTime => d \in docs']_vars

\* C14: a step that stores a new span keeps every stored span with all its
\* fields and adds exactly the new one, whatever the overlaps.
C14_InsertAddsExactlyOne ==
    [][(DocIdsOf(docs') # DocIdsOf(docs)) =>
          /\ docs \subseteq docs'
          /\ Cardinality(docs') = Cardinality(docs) + 1]_vars

C14_Witness ==
    \E d, e \in docs :
        /\ d.created_at < e.created_at
        /\ d.deleted_at = NoTime /\ e.deleted_at = NoTime
        /\ e.start_index <= d.start_index
        /\ d.start_index < e.end_index
        /\ e.end_index < d.end_index
        /\ Len(annotations) = 2

NotShown(id, anns, segs) ==
    /\ \A i \in 1..Len(anns) : anns[i].id # id
    /\ \A s \in 1..Len(segs) : segs[s].id # <<"doc", id>>

\* C15: the step that soft-deletes a live span keeps its record with every
\* field but deletedAt unchanged; a soft-deleted span is neither among the
\* live spans nor in the rendered segments, and it stays soft-deleted.
C15_SoftDeleteKeepsRecord ==
    [][/\ \A d \in docs :
             \E e \in docs' :
                 /\ e.id = d.id
                 /\ d.deleted_at # NoTime => e.deleted_at # NoTime
                 /\ (d.deleted_at = NoTime /\ e.deleted_at # NoTime) =>
                       /\ SameSpan(d, e)
                       /\ e.tag_id = d.tag_id
                       /\ e.updated_at = d.updated_at
       /\ \A e \in docs' :
             e.deleted_at # NoTime => NotShown(e.id, annotations', segments')]_vars

C15_Witness ==
    \E d, e \in docs :
        /\ d.deleted_at # NoTime
        /\ InRange(d.start_index, d.end_index, text)
        /\ NotShown(d.id, annotations, segments)
        /\ e.deleted_at = NoTime
        /\ ~NotShown(e.id, annotations, segments)

\* =====================================================================
\* Properties of the string metric (specification SpecMetric)
\* =====================================================================
\* The Levenshtein distance by its definition: the cheapest of deleting
\* the first character of a, inserting the first character of b, and
\* matching or substituting the two first characters.
RECURSIVE EditDistance(_, _)
EditDistance(a, b) ==
    IF a = <<>> THEN Len(b)
    ELSE IF b = <<>> THEN Len(a)
    ELSE Min3(EditDistance(Tail(a), b) + 1,
              EditDistance(a, Tail(b)) + 1,
              EditDistance(Tail(a), Tail(b))
                  + (IF Head(a) = Head(b) THEN 0 ELSE 1))

Kitten == <<"k", "i", "t", "t", "e", "n">>
Sitting == <<"s", "i", "t", "t", "i", "n", "g">>
KittenSitting == levenshteinDistance(Kitten, Sitting)

\* C16: levenshteinDistance(a, b) is the unit-cost edit distance of a and b
\* as given (case-sensitive): it is len(a) for b = "", len(b) for a = "",
\* 0 for a = b, symmetric, and 3 for "kitten" and "sitting".
C16_IsEditDistance ==
    /\ distance # NULL =>
          LET a == labels[1]
              b == labels[2]
          IN  /\ distance.value = EditDistance(a, b)
              /\ distance.value = levenshteinDistance(b, a)
              /\ b = <<>> => distance.value = Len(a)
              /\ a = <<>> => distance.value = Len(b)
              /\ a = b <=> distance.value = 0
    /\ KittenSitting = 3

C16_Witness ==
    /\ distance # NULL
    /\ distance.value = 2
    /\ labels[1] # labels[2]
    /\ toLowerCase(labels[1]) = toLowerCase(labels[2])

\* Two characters that differ at most in case.
SameLetter(c, d) ==
    \/ c = d
    \/ {c, d} \in {{"A", "a"}, {"M", "m"}, {"R", "r"}}

EqualCI(x, y) ==
    /\ Len(x) = Len(y)
    /\ \A i \in 1..Len(x) : SameLetter(x[i], y[i])

\* x occurs in y, case ignored.
SubstringCI(x, y) ==
    \E i \in 0..(Len(y) - Len(x)) : EqualCI(SubSeq(y, i + 1, i + Len(x)), x)

\* C17: the test of line 39 is true exactly for labels equal up to case,
\* the test of line 42 exactly when one label occurs in the other up to
\* case, so for every label against the empty one; areTagsSimilar returns
\* true when either holds.
C17_SameAndContains ==
    similar # NULL =>
        LET a == labels[1]
            b == labels[2]
        IN  /\ sameTest(a, b) <=> EqualCI(a, b)
            /\ containsTest(a, b) <=> (SubstringCI(a, b) \/ SubstringCI(b, a))
            /\ (a = <<>> \/ b = <<>>) => containsTest(a, b)
            /\ (sameTest(a, b) \/ containsTest(a, b)) => similar.value

C17_Witness ==
    /\ similar # NULL
    /\ similar.value
    /\ ~sameTest(labels[1], labels[2])
    /\ containsTest(labels[1], labels[2])
    /\ ~includes(labels[1], labels[2])
    /\ ~includes(labels[2], labels[1])
    /\ levenshteinDistance(toLowerCase(labels[1]), toLowerCase(labels[2])) > threshold

\* =====================================================================
\* Properties of the tag grouping (specification SpecTags)
\* =====================================================================
SetOf(seq) == {seq[i] : i \in 1..Len(seq)}

\* The places (group, position) at which label l occurs in the groups.
Places(l) ==
    UNION {{<<g, k>> : k \in {i \in 1..Len(groups[g].tags) : groups[g].tags[i] = l}}
              : g \in 1..Len(groups)}

\* The group that holds label l.
GroupIdx(l) == CHOOSE g \in 1..Len(groups) : l \in SetOf(groups[g].tags)

\* C18: every array with the same set of labels as the one given, in any
\* order and multiplicity, is grouped into the same sequence of groups, and
\* so is the same array again.
C18_DeterministicInLabelSet ==
    grouped =>
        \A n \in 0..MaxLabels :
            \A other \in [1..n -> SetOf(labels)] :
                SetOf(other) = SetOf(labels)
                    => groupTags(other, threshold) = groups

C18_Witness ==
    /\ grouped
    /\ Len(labels) = 3
    /\ Cardinality(SetOf(labels)) = 2
    /\ sortedTags(labels) # labels
    /\ Len(groups) = 2

\* C19: the groups partition the distinct labels of the input: each occurs
\* at exactly one place of the output, and every member is an input label.
C19_Partition ==
    grouped =>
        /\ \A l \in SetOf(labels) : Cardinality(Places(l)) = 1
        /\ \A g \in 1..Len(groups) : SetOf(groups[g].tags) \subseteq SetOf(labels)

C19_Witness ==
    /\ grouped
    /\ Cardinality(SetOf(labels)) < Len(labels)
    /\ Len(groups) = 2
    /\ Len(groups[1].tags) = 1
    /\ labels[1] = labels[2]
    /\ labels[1] = groups[1].name

Method == <<"M", "e", "t", "h", "o", "d">>
Methods == <<"M", "e", "t", "h", "o", "d", "s">>
Result == <<"R", "e", "s", "u", "l", "t">>
MethodExample ==
    groupTags(<<Method, Methods, Result>>, DefaultThreshold)
        = <<[name |-> Method, tags |-> <<Method, Methods>>],
            [name |-> Result, tags |-> <<Result>>]>>

\* C20 (as stated): two labels of which one occurs in the other, case
\* ignored, are in the same group, for every label set and threshold.
C20_SubstringSameGroup ==
    /\ grouped =>
          \A l, k \in SetOf(labels) :
              SubstringCI(l, k) => GroupIdx(l) = GroupIdx(k)
    /\ MethodExample

\* C20 (amended): a label that occurs in a group's name or in which the
\* name occurs, case ignored, is in that group or in one opened before it;
\* "Method" and "Methods" share a group and "Result" has its own.
C20_SubstringOfGroupName ==
    /\ grouped =>
          \A g \in 1..Len(groups) :
              \A l \in SetOf(labels) :
                  (SubstringCI(l, groups[g].name) \/ SubstringCI(groups[g].name, l))
                      => GroupIdx(l) <= g
    /\ MethodExample

C20_Witness ==
    /\ grouped
    /\ Len(groups) = 2
    /\ \E l \in SetOf(groups[2].tags) :
          /\ l # groups[2].name
          /\ SubstringCI(groups[2].name, l)
          /\ levenshteinDistance(toLowerCase(groups[2].name), toLowerCase(l)) > threshold

\* ---------------------------------------------------------------------
\* The greedy grouping stated on the set of labels
\* ---------------------------------------------------------------------
Least(S) == CHOOSE x \in S : \A y \in S \ {x} : StrLess(x, y)

\* The labels of S in ascending order.
RECURSIVE Ascending(_)
Ascending(S) ==
    IF S = {} THEN <<>> ELSE <<Least(S)>> \o Ascending(S \ {Least(S)})

\* The lower-case form of x, character by character.
Lowered(x) ==
    [i \in 1..Len(x) |->
        IF x[i] \in {"A", "M", "R"}
        THEN CHOOSE d \in {"a", "m", "r"} : SameLetter(x[i], d)
        ELSE x[i]]

SimilarRef(l, k, th) ==
    \/ EqualCI(l, k)
    \/ SubstringCI(l, k)
    \/ SubstringCI(k, l)
    \/ EditDistance(Lowered(l), Lowered(k)) <= th

\* The least label of S opens a group and takes the labels of S similar
\* to it; the rest of S is grouped in the same way.
RECURSIVE GreedyGroups(_, _)
GreedyGroups(S, th) ==
    IF S = {} THEN <<>>
    ELSE LET l == Least(S)
             taken == {k \in S \ {l} : SimilarRef(l, k, th)}
         IN  <<[name |-> l, tags |-> <<l>> \o Ascending(taken)]>>
                 \o GreedyGroups(S \ ({l} \cup taken), th)

DefaultExample ==
    groupTagsDefault(<<Result, Methods, Method>>)
        = GreedyGroups({Method, Methods, Result}, 3)

\* C23: groupTags returns the groups of the greedy algorithm on the set
\* of its labels: group names ascending, each group its name followed by
\* the labels still free that are similar to the name, ascending; without
\* a threshold argument the threshold is 3.
C23_IsGreedyGrouping ==
    /\ grouped =>
          /\ groups = GreedyGroups(SetOf(labels), threshold)
          /\ groupTagsDefault(labels) = GreedyGroups(SetOf(labels), 3)
          /\ \A g \in 1..Len(groups) :
                g < Len(groups) => StrLess(groups[g].name, groups[g + 1].name)
    /\ DefaultExample

C23_Witness ==
    /\ grouped
    /\ Len(labels) = 3
    /\ Len(groups) = 2
    /\ Len(groups[1].tags) = 2
    /\ ~EqualCI(groups[1].tags[1], groups[1].tags[2])
    /\ ~SubstringCI(groups[1].tags[1], groups[1].tags[2])
    /\ ~SubstringCI(groups[1].tags[2], groups[1].tags[1])
    /\ groupTagsDefault(labels) # groups

\* C24: an empty array gives no group, and an array of the single label L
\* gives the one group named L with the members [L], whatever the threshold.
C24_EmptyAndSingle ==
    grouped =>
        /\ Len(labels) = 0 => groups = <<>>
        /\ Len(labels) = 1 =>
              groups = <<[name |-> labels[1], tags |-> <<labels[1]>>]>>

C24_Witness ==
    /\ grouped
    /\ Len(labels) = 1
    /\ labels[1] # <<>>
    /\ threshold = MaxThreshold
    /\ Len(groups) = 1

\* C27: every member of a group after its first is similar to the group's
\* name, the names of two different groups are not similar, and a group's
\* name precedes its other members in sort order.
C27_GroupsAroundNames ==
    grouped =>
        /\ \A g \in 1..Len(groups) :
              /\ groups[g].tags[1] = groups[g].name
              /\ \A k \in 2..Len(groups[g].tags) :
                    /\ areTagsSimilar(groups[g].name, groups[g].tags[k], threshold)
                    /\ StrLess(groups[g].name, groups[g].tags[k])
        /\ \A g, h \in 1..Len(groups) :
              g # h => ~areTagsSimilar(groups[g].name, groups[h].name, threshold)

\* A member that is not its group's name is similar to a label of another
\* group.
C27_Witness ==
    /\ grouped
    /\ Len(groups) = 2
    /\ Len(groups[1].tags) = 2
    /\ areTagsSimilar(groups[1].tags[2], groups[2].name, threshold)
    /\ ~areTagsSimilar(groups[1].name, groups[2].name, threshold)

\* =====================================================================
\* Further properties of the Highlighter
\* =====================================================================
\* C25: the cached text of a span equals text[start:end] of the canonical
\* text at the moment the span is created.
C25_CachedTextAtCreation ==
    [][\A d \in NewDocs :
          d.text_content = slice(text, d.start_index, d.end_index)]_vars

\* The step is a write of the other client.
RemoteWrite ==
    remoteAddAnnotation \/ remoteDeleteAnnotation \/ remoteChangeTag

RECURSIVE SumLen(_, _)
SumLen(segs, n) ==
    IF n = 0 THEN 0 ELSE SumLen(segs, n - 1) + Len(segs[n].text)

\* The segment whose text is the i-th text node of the container.
SegmentOf(i) ==
    CHOOSE j \in 1..Len(segments) :
        /\ segments[j].text # <<>>
        /\ Cardinality({m \in 1..j : segments[m].text # <<>>}) = i

\* The text a Range from point s to point e selects: the rest of the node
\* of s, the nodes between, and the node of e up to e.
RECURSIVE SelectedText(_, _, _)
SelectedText(nodes, s, e) ==
    IF s[1] = e[1] THEN SubSeq(nodes[s[1]], s[2] + 1, e[2])
    ELSE SubSeq(nodes[s[1]], s[2] + 1, Len(nodes[s[1]]))
            \o SelectedText(nodes, <<s[1] + 1, 0>>, e)

\* Point s lies before point e in the document.
PointBefore(s, e) == s[1] < e[1] \/ (s[1] = e[1] /\ s[2] < e[2])

\* position is a boundary point inside a text node.
InNode ==
    /\ position[1] \in 1..Len(TextNodes(segments))
    /\ position[2] <= Len(TextNodes(segments)[position[1]])

\* C21: the point (segment i, local k) resolves to the sum of the lengths
\* of the segments before i plus k; the character of the text at the
\* resolved offset is character k of the segment; and the span between two
\* resolved points covers exactly the characters the Range selects.
C21_ResolvesToTextOffset ==
    (resolved # NULL /\ InNode) =>
        LET nodes == TextNodes(segments)
            i == SegmentOf(position[1])
            k == position[2]
            p == resolved.value
        IN  /\ p = SumLen(segments, i - 1) + k
            /\ k < Len(segments[i].text) => text[p + 1] = segments[i].text[k + 1]
            /\ \A e \in (1..Len(nodes)) \X (0..MaxRenderLen) :
                  (e[2] <= Len(nodes[e[1]]) /\ PointBefore(position, e)) =>
                      LET q == getAbsoluteOffset(nodes, e[1], e[2])
                          selected == SelectedText(nodes, position, e)
                      IN  /\ slice(text, p, q) = selected
                          /\ q - p = Len(selected)
                          /\ RangeAccepted(p, q) <=> selected # <<>>

C21_Witness ==
    /\ resolved # NULL
    /\ InNode
    /\ position[1] = 3
    /\ position[2] = 1
    /\ Len(annotations) = 2
    /\ resolved.value = 3

Dangling(i) == annotations[i].tag_id \notin tagsMap

\* C26: deleting a tag leaves every stored span, the live spans and the
\* rendered segments unchanged, and a span whose tag has been deleted is
\* still rendered as a Highlighted segment carrying its tag id wherever an
\* earlier span does not cover it.
C26_DeleteTagKeepsSpans ==
    /\ [][tagsMap' # tagsMap =>
             /\ docs' = docs
             /\ annotations' = annotations
             /\ segments' = segments]_vars
    /\ [](\A i \in AnnIdx :
             (Dangling(i) /\ annotations[i].end_index > CursorBefore(i)) =>
                 /\ SegsOf(i) # {}
                 /\ \A s \in SegsOf(i) :
                       segments[s].tagId = annotations[i].tag_id)

C26_Witness ==
    /\ tagsMap = {}
    /\ Len(annotations) = 2
    /\ \E i \in AnnIdx :
          /\ Dangling(i)
          /\ \E s \in SegsOf(i) : segments[s].text # <<>>

\* =====================================================================
\* Properties of the session tracking (specification SpecSession)
\* =====================================================================
\* C29: at most one paper_sessions document exists for the (user, paper)
\* pair, whatever the interleaving of the initSession runs.
C29_OneSessionPerPair == Cardinality(DOMAIN sessions) <= 1

RECURSIVE SumVisibleMs(_)
SumVisibleMs(T) ==
    IF T = {} THEN 0
    ELSE LET t == CHOOSE x \in T : TRUE
         IN  tabs[t].visibleMs + SumVisibleMs(T \ {t})

\* C30: the stored duration of a session never exceeds the time the pages
\* have been mounted with their tab visible.
C30_DurationWithinVisibleTime ==
    \A id \in DOMAIN sessions :
        sessions[id] * MsPerSecond <= SumVisibleMs(DOMAIN tabs)

====
